---------------------------- MODULE Spec2Model ----------------------------
(***************************************************************************)
(* A model of the 2-D beamforming simulator: the vectorised PhasedArray   *)
(* (src/phased_array.py), the single-array grid manager that the          *)
(* callbacks and the scenario loader drive (update_parameters,            *)
(* calculate_total_field), and the list-of-arrays SystemController        *)
(* (src/system_controller.py, src/beamforming/system_controller.py).      *)
(*                                                                         *)
(* Numbers.  numpy's float64 values are held as fixed-point integers:     *)
(*   frequencies   in whole frequency units (1 = 1e9 Hz),                 *)
(*   speeds        in whole speed units     (3 = 3e8 m/s),                *)
(*   lengths       in 1/PosScale of the length unit speed/frequency,      *)
(*   angles/phases in milliradians, amplitudes and sin/cos in 1/Milli.    *)
(* Every division rounds to nearest, symmetrically in the sign, as        *)
(* floating point does (RDiv).                                            *)
(***************************************************************************)
EXTENDS Integers, Sequences, FiniteSets, TLC

(***************************************************************************)
(* Bounds of the model.                                                    *)
(***************************************************************************)
MaxElements == 2

(***************************************************************************)
(* Fixed-point arithmetic.                                                 *)
(***************************************************************************)
Milli == 1000
PosScale == 1200
Pi == 3142
TwoPi == 6283
HalfPi == 1571

Abs(a) == IF a < 0 THEN -a ELSE a

Sgn(a) == IF a < 0 THEN -1 ELSE IF a > 0 THEN 1 ELSE 0

\* a / b rounded to nearest, ties away from zero; b > 0.
RDiv(a, b) == Sgn(a) * ((Abs(a) + b \div 2) \div b)

Max2(a, b) == IF a >= b THEN a ELSE b

Min2(a, b) == IF a <= b THEN a ELSE b

RECURSIVE SeqMin(_)
SeqMin(s) == IF Len(s) = 1 THEN s[1] ELSE Min2(s[1], SeqMin(Tail(s)))

RECURSIVE SeqMax(_)
SeqMax(s) == IF Len(s) = 1 THEN s[1] ELSE Max2(s[1], SeqMax(Tail(s)))

RECURSIVE ISqrtIter(_, _)
ISqrtIter(n, x) ==
    LET y == (x + n \div x) \div 2
    IN IF y >= x THEN x ELSE ISqrtIter(n, y)

\* floor(sqrt(n)), n >= 0.
ISqrt(n) == IF n = 0 THEN 0 ELSE ISqrtIter(n, n)

\* sqrt(a^2 + b^2), scaled down first where the squares would leave 31 bits.
Hypot(a, b) ==
    LET m == Max2(Abs(a), Abs(b))
        s == (m \div 30000) + 1
        p == Abs(a) \div s
        q == Abs(b) \div s
    IN s * ISqrt(p * p + q * q)

\* sin on [0, Pi] (milliradians in, 1/Milli out), Bhaskara's rational form.
SinB(x) ==
    LET a == RDiv(x * (Pi - x), 100)
    IN RDiv(16 * Milli * a, 5 * RDiv(Pi * Pi, 100) - 4 * a)

SinPos(x) ==
    LET r == x % TwoPi
    IN IF r <= Pi THEN SinB(r) ELSE -SinB(r - Pi)

\* np.sin: odd, so Sin(-x) = -Sin(x) exactly.
Sin(x) == Sgn(x) * SinPos(Abs(x))

\* np.cos: even.
Cos(x) == SinPos(Abs(x) + HalfPi)

\* np.deg2rad: degrees to milliradians.
Deg2Rad(deg) == RDiv(deg * Pi, 180)

zeros(n) == [i \in 1..n |-> 0]

ones_times(n, v) == [i \in 1..n |-> v]

(***************************************************************************)
(* State.                                                                  *)
(*   array        the PhasedArray object (src/phased_array.py)             *)
(*   last_scalar  the last single frequency broadcast to all elements      *)
(*   raised       whether the last operation ended in an exception         *)
(*   out          what the last operation computed: its name, the         *)
(*                wavenumbers it used (k_vec) and its return value         *)
(*   grid         the grid manager's sample grid: extents, resolution      *)
(*                and the two coordinate matrices                          *)
(*   spacing      the element pitch last resolved, in tenths of the        *)
(*                nominal wavelength                                       *)
(*   calls        the update_graphs invocations in flight: each one's      *)
(*                position, parameters, the controller state its own       *)
(*                update left, what it rendered, and whether it ran alone  *)
(*   arrays       the element-list controller's list of arrays             *)
(***************************************************************************)
VARIABLES array, last_scalar, raised, out, grid, spacing, arrays, calls

avars == <<array, last_scalar, raised, out>>

gvars == <<grid, spacing, arrays, calls>>

vars == <<array, last_scalar, raised, out, grid, spacing, arrays, calls>>

DefaultFreq == 1
DefaultSpeed == 3
RFloor == 1

NoOut == [op |-> "none", k |-> <<>>, val |-> <<>>]

\* an update_graphs invocation that has not started
NoCall == [pc |-> "idle", params |-> <<>>, snap |-> <<>>, field |-> <<>>,
           profile |-> <<>>, exclusive |-> TRUE]

\* the two update_graphs invocations the host may have in flight
NoCalls == [i \in {1, 2} |-> NoCall]

\* PhasedArray.__init__
PhasedArray(id, num_elements, curvature) ==
    [id |-> id,
     num_elements |-> num_elements,
     curvature |-> curvature,
     frequencies |-> ones_times(num_elements, DefaultFreq),
     x_coords |-> zeros(num_elements),
     y_coords |-> zeros(num_elements),
     phases |-> zeros(num_elements),
     c |-> DefaultSpeed]

\* a wavenumber computed once from the constructor's speed and never refreshed
k_vec_stale(frequencies, speed) ==
    [i \in 1..Len(frequencies) |-> RDiv(TwoPi * frequencies[i], DefaultSpeed)]

\* k_vec = 2 * np.pi * self.frequencies / self.c   (milliradians per length unit)
k_vec(frequencies, speed) ==
    [i \in 1..Len(frequencies) |-> RDiv(TwoPi * frequencies[i], speed)]

\* update_frequencies without the length repair: the list is stored as given
update_frequencies_unrepaired(self, freq_list) ==
    [self EXCEPT !.frequencies = freq_list]

\* update_frequencies broadcasting the last value of a mismatched list
update_frequencies_last(self, freq_list) ==
    IF Len(freq_list) # self.num_elements
    THEN LET val == IF Len(freq_list) > 0
                    THEN freq_list[Len(freq_list)] ELSE DefaultFreq
         IN [self EXCEPT !.frequencies = ones_times(self.num_elements, val)]
    ELSE [self EXCEPT !.frequencies = freq_list]

\* PhasedArray.update_frequencies
update_frequencies(self, freq_list) ==
    IF Len(freq_list) # self.num_elements
    THEN LET val == IF Len(freq_list) > 0 THEN freq_list[1] ELSE DefaultFreq
         IN [self EXCEPT !.frequencies = ones_times(self.num_elements, val)]
    ELSE [self EXCEPT !.frequencies = freq_list]

\* np.linspace(-total / 2, total / 2, n)[i], i from 0
linspace_sym(total, n, i) ==
    IF n = 1 THEN RDiv(-total, 2)
    ELSE RDiv((2 * i - (n - 1)) * total, 2 * (n - 1))

\* generate_geometry centring the line on index N / 2
generate_geometry_half_offset(self, spacing_ratio, curvature) ==
    LET n == self.num_elements
        min_freq == IF Len(self.frequencies) > 0
                    THEN SeqMin(self.frequencies) ELSE DefaultFreq
        d == RDiv(spacing_ratio * self.c * PosScale, 10 * min_freq)
    IN IF curvature = 0
       THEN [self EXCEPT
               !.curvature = curvature,
               !.x_coords = [i \in 1..n |-> RDiv((2 * (i - 1) - n) * d, 2)],
               !.y_coords = zeros(n)]
       ELSE LET R == Sgn(curvature) * RDiv(10 * PosScale, Abs(curvature))
                arc_length == (n - 1) * d
                total_angle == Sgn(R) * RDiv(arc_length * Milli, Abs(R))
                angles == [i \in 1..n |-> linspace_sym(total_angle, n, i - 1)]
            IN [self EXCEPT
                  !.curvature = curvature,
                  !.x_coords = [i \in 1..n |-> RDiv(R * Sin(angles[i]), Milli)],
                  !.y_coords = [i \in 1..n |-> RDiv(R * Cos(angles[i]), Milli) - R]]

\* generate_geometry taking the pitch from the highest frequency
generate_geometry_max_freq(self, spacing_ratio, curvature) ==
    LET n == self.num_elements
        min_freq == IF Len(self.frequencies) > 0
                    THEN SeqMax(self.frequencies) ELSE DefaultFreq
        d == RDiv(spacing_ratio * self.c * PosScale, 10 * min_freq)
    IN IF curvature = 0
       THEN [self EXCEPT
               !.curvature = curvature,
               !.x_coords = [i \in 1..n |-> RDiv((2 * (i - 1) - (n - 1)) * d, 2)],
               !.y_coords = zeros(n)]
       ELSE LET R == Sgn(curvature) * RDiv(10 * PosScale, Abs(curvature))
                arc_length == (n - 1) * d
                total_angle == Sgn(R) * RDiv(arc_length * Milli, Abs(R))
                angles == [i \in 1..n |-> linspace_sym(total_angle, n, i - 1)]
            IN [self EXCEPT
                  !.curvature = curvature,
                  !.x_coords = [i \in 1..n |-> RDiv(R * Sin(angles[i]), Milli)],
                  !.y_coords = [i \in 1..n |-> RDiv(R * Cos(angles[i]), Milli) - R]]

\* PhasedArray.generate_geometry; spacing_ratio and curvature in tenths
generate_geometry(self, spacing_ratio, curvature) ==
    LET n == self.num_elements
        min_freq == IF Len(self.frequencies) > 0
                    THEN SeqMin(self.frequencies) ELSE DefaultFreq
        d == RDiv(spacing_ratio * self.c * PosScale, 10 * min_freq)
    IN IF curvature = 0
       THEN [self EXCEPT
               !.curvature = curvature,
               !.x_coords = [i \in 1..n |-> RDiv((2 * (i - 1) - (n - 1)) * d, 2)],
               !.y_coords = zeros(n)]
       ELSE LET R == Sgn(curvature) * RDiv(10 * PosScale, Abs(curvature))
                arc_length == (n - 1) * d
                total_angle == Sgn(R) * RDiv(arc_length * Milli, Abs(R))
                angles == [i \in 1..n |-> linspace_sym(total_angle, n, i - 1)]
            IN [self EXCEPT
                  !.curvature = curvature,
                  !.x_coords = [i \in 1..n |-> RDiv(R * Sin(angles[i]), Milli)],
                  !.y_coords = [i \in 1..n |-> RDiv(R * Cos(angles[i]), Milli) - R]]

\* the steering term taken with the cosine of the angle
steering_phases_cos(self, k, steer_angle) ==
    LET angle_rad == Deg2Rad(steer_angle)
    IN [i \in 1..self.num_elements |->
          -RDiv(RDiv(k[i] * self.x_coords[i], PosScale) * Cos(angle_rad), Milli)]

\* the steering term with the opposite sign: +k * x * sin(theta)
steering_phases_positive(self, k, steer_angle) ==
    LET angle_rad == Deg2Rad(steer_angle)
    IN [i \in 1..self.num_elements |->
          RDiv(RDiv(k[i] * self.x_coords[i], PosScale) * Sin(angle_rad), Milli)]

\* the steering term of compute_phases: -k * x * sin(theta)
steering_phases(self, k, steer_angle) ==
    LET angle_rad == Deg2Rad(steer_angle)
    IN [i \in 1..self.num_elements |->
          -RDiv(RDiv(k[i] * self.x_coords[i], PosScale) * Sin(angle_rad), Milli)]

\* the focusing term referenced to the nearest element
focusing_phases_nearest(self, k, focal_point) ==
    LET tx == focal_point[1]
        ty == focal_point[2]
        dists == [i \in 1..self.num_elements |->
                    Hypot(self.x_coords[i] - tx, self.y_coords[i] - ty)]
        min_dist == SeqMin(dists)
    IN [i \in 1..self.num_elements |->
          RDiv(k[i] * (min_dist - dists[i]), PosScale)]

\* the focusing term with the first element's wavenumber for every element
focusing_phases_scalar_k(self, k, focal_point) ==
    LET tx == focal_point[1]
        ty == focal_point[2]
        dists == [i \in 1..self.num_elements |->
                    Hypot(self.x_coords[i] - tx, self.y_coords[i] - ty)]
        max_dist == SeqMax(dists)
    IN [i \in 1..self.num_elements |->
          RDiv(k[1] * (max_dist - dists[i]), PosScale)]

\* the focusing term of compute_phases: k * (max_dist - dists)
focusing_phases(self, k, focal_point) ==
    LET tx == focal_point[1]
        ty == focal_point[2]
        dists == [i \in 1..self.num_elements |->
                    Hypot(self.x_coords[i] - tx, self.y_coords[i] - ty)]
        max_dist == SeqMax(dists)
    IN [i \in 1..self.num_elements |->
          RDiv(k[i] * (max_dist - dists[i]), PosScale)]

\* compute_phases adding the new terms onto the stored phases
compute_phases_accumulate(self, steer_angle, focal_point) ==
    LET k == k_vec(self.frequencies, self.c)
        n == self.num_elements
        st == IF steer_angle # <<>>
              THEN steering_phases(self, k, steer_angle[1]) ELSE zeros(n)
        fo == IF focal_point # <<>>
              THEN focusing_phases(self, k, focal_point) ELSE zeros(n)
    IN [self |-> [self EXCEPT !.phases =
                    [i \in 1..n |-> self.phases[i] + st[i] + fo[i]]],
        k |-> k]

\* compute_phases whose focusing term replaces the steering term
compute_phases_focus_overrides(self, steer_angle, focal_point) ==
    LET k == k_vec(self.frequencies, self.c)
        n == self.num_elements
        st == IF steer_angle # <<>>
              THEN steering_phases(self, k, steer_angle[1]) ELSE zeros(n)
    IN [self |-> [self EXCEPT !.phases =
                    IF focal_point # <<>>
                    THEN focusing_phases(self, k, focal_point) ELSE st],
        k |-> k]

\* PhasedArray.compute_phases; an absent argument (None) is <<>>,
\* a steering angle is <<degrees>>, a focal point is <<tx, ty>>.
\* Returns the array and the k_vec it used.
compute_phases(self, steer_angle, focal_point) ==
    LET k == k_vec(self.frequencies, self.c)
        n == self.num_elements
        st == IF steer_angle # <<>>
              THEN steering_phases(self, k, steer_angle[1]) ELSE zeros(n)
        fo == IF focal_point # <<>>
              THEN focusing_phases(self, k, focal_point) ELSE zeros(n)
    IN [self |-> [self EXCEPT !.phases = [i \in 1..n |-> st[i] + fo[i]]],
        k |-> k]

\* one element's term of get_electric_field at the point (px, py):
\* (1.0 / r) * np.exp(1j * (k * r + phase)), as <<re, im>>
field_term(self, k, i, px, py) ==
    LET r == Max2(Hypot(px - self.x_coords[i], py - self.y_coords[i]), RFloor)
        amp == RDiv(Milli * PosScale, r)
        theta == RDiv(k[i] * r, PosScale) + self.phases[i]
    IN <<RDiv(amp * Cos(theta), Milli), RDiv(amp * Sin(theta), Milli)>>

RECURSIVE field_sum(_, _, _, _, _)
field_sum(self, k, i, px, py) ==
    IF i = 0 THEN <<0, 0>>
    ELSE LET rest == field_sum(self, k, i - 1, px, py)
             t == field_term(self, k, i, px, py)
         IN <<rest[1] + t[1], rest[2] + t[2]>>

\* get_electric_field accumulating the propagation phase into the stored phases
get_electric_field_inplace(self, grid_x, grid_y) ==
    LET k == k_vec(self.frequencies, self.c)
    IN [self |-> [self EXCEPT !.phases =
                    [i \in 1..Len(self.phases) |-> (self.phases[i] + k[i]) % TwoPi]],
        val |-> [r \in 1..Len(grid_x) |->
                   [q \in 1..Len(grid_x[r]) |->
                      field_sum(self, k, self.num_elements,
                                grid_x[r][q], grid_y[r][q])]],
        k |-> k, grid_x |-> grid_x, grid_y |-> grid_y]

\* PhasedArray.get_electric_field: the complex field, shaped like grid_x.
\* Returns the array and the two grids as the call leaves them, the field and
\* the k_vec it used.
get_electric_field(self, grid_x, grid_y) ==
    LET k == k_vec(self.frequencies, self.c)
    IN [self |-> self,
        val |-> [r \in 1..Len(grid_x) |->
                   [q \in 1..Len(grid_x[r]) |->
                       field_sum(self, k, self.num_elements,
                                 grid_x[r][q], grid_y[r][q])]],
        k |-> k, grid_x |-> grid_x, grid_y |-> grid_y]

RECURSIVE profile_sum(_, _, _, _)
profile_sum(self, k, i, angle_rad) ==
    IF i = 0 THEN <<0, 0>>
    ELSE LET rest == profile_sum(self, k, i - 1, angle_rad)
             geo_phase == RDiv(k[i] * RDiv(self.x_coords[i] * Sin(angle_rad), Milli),
                               PosScale)
             theta == geo_phase + self.phases[i]
         IN <<rest[1] + Cos(theta), rest[2] + Sin(theta)>>

\* calculate_azimuth_profile converting the angles it was passed in place
calculate_azimuth_profile_inplace(self, angles_deg) ==
    LET k == k_vec(self.frequencies, self.c)
    IN [self |-> self,
        val |-> [a \in 1..Len(angles_deg) |->
                   LET z == profile_sum(self, k, self.num_elements,
                                        Deg2Rad(angles_deg[a]))
                   IN Hypot(z[1], z[2])],
        k |-> k,
        angles_deg |-> [a \in 1..Len(angles_deg) |-> Deg2Rad(angles_deg[a])]]

\* PhasedArray.calculate_azimuth_profile: |sum of unit phasors| per angle.
\* Returns the array and the angles as the call leaves them, the response and
\* the k_vec it used.
calculate_azimuth_profile(self, angles_deg) ==
    LET k == k_vec(self.frequencies, self.c)
    IN [self |-> self,
        val |-> [a \in 1..Len(angles_deg) |->
                   LET z == profile_sum(self, k, self.num_elements,
                                        Deg2Rad(angles_deg[a]))
                   IN Hypot(z[1], z[2])],
        k |-> k, angles_deg |-> angles_deg]

\* np.linspace(lo, hi, n)[i], i from 0, n >= 2
linspace(lo, hi, n, i) == lo + RDiv(i * (hi - lo), n - 1)

\* the sample grid over a lateral extent centred on 0 and a depth extent from 0:
\* np.meshgrid of the two axes, resolution samples each
make_grid(grid_width, grid_depth, res) ==
    LET xs == [q \in 1..res |->
                 RDiv((2 * (q - 1) - (res - 1)) * grid_width * PosScale, 2 * (res - 1))]
        ys == [r \in 1..res |-> linspace(0, grid_depth * PosScale, res, r - 1)]
    IN [x |-> [r \in 1..res |-> [q \in 1..res |-> xs[q]]],
        y |-> [r \in 1..res |-> [q \in 1..res |-> ys[r]]]]

(***************************************************************************)
(* The inputs the operations are driven with.                              *)
(***************************************************************************)
CountSet == 1..MaxElements

\* frequency lists of every length 0..MaxElements+1: <<2, 1, 1, ...>>
FreqLists ==
    {[i \in 1..L |-> IF i = 1 THEN 2 ELSE 1] : L \in 0..(MaxElements + 1)}

SpeedSet == {3, 6}

RatioSet == {5}

CurvSet == {0, 5}

SteerSet == {<<>>, <<30>>}

FocalSet == {<<>>, <<0, PosScale>>}

AnglesDeg == <<0, 30>>

\* a grid of one row and two points, one on the axis and one off it
ProbeGrid == [x |-> <<<<0, PosScale>>>>, y |-> <<<<PosScale, PosScale>>>>]

DefaultSpacing == 5

DefaultExtent == 20

NoGrid == [width |-> 0, depth |-> 0, resolution |-> 0, x |-> <<>>, y |-> <<>>]

(***************************************************************************)
(* The Array's operations, called one at a time (SpecArray).               *)
(***************************************************************************)
InitArray ==
    /\ \E n \in CountSet : array = PhasedArray(0, n, 0)
    /\ last_scalar = DefaultFreq
    /\ raised = FALSE
    /\ out = NoOut
    /\ grid = NoGrid
    /\ spacing = DefaultSpacing
    /\ calls = NoCalls
    /\ arrays = <<>>

\* an element-count change that rebuilds the array as the constructor does,
\* default frequency included
set_element_count_rebuilt(self, scalar, n) ==
    [PhasedArray(self.id, n, self.curvature) EXCEPT !.c = self.c]

\* the element count is changed: positions and phases go back to the
\* constructor's baseline, the last scalar frequency is broadcast
set_element_count(self, scalar, n) ==
    [PhasedArray(self.id, n, self.curvature) EXCEPT
        !.frequencies = ones_times(n, scalar),
        !.c = self.c]

SetElementCount(n) ==
    /\ array' = set_element_count(array, last_scalar, n)
    /\ out' = [op |-> "set_element_count", k |-> <<>>, val |-> <<n>>]
    /\ UNCHANGED <<last_scalar, raised>>
    /\ UNCHANGED gvars

\* the propagation speed is changed
SetSpeed(v) ==
    /\ array' = [array EXCEPT !.c = v]
    /\ out' = NoOut
    /\ UNCHANGED <<last_scalar, raised>>
    /\ UNCHANGED gvars

UpdateFrequencies(fl) ==
    /\ array' = update_frequencies(array, fl)
    /\ last_scalar' = IF Len(fl) # array.num_elements
                      THEN (IF Len(fl) > 0 THEN fl[1] ELSE DefaultFreq)
                      ELSE last_scalar
    /\ out' = [op |-> "update_frequencies", k |-> <<>>, val |-> fl]
    /\ raised' = FALSE
    /\ UNCHANGED gvars

GenerateGeometry(ratio, curv) ==
    /\ array' = generate_geometry(array, ratio, curv)
    /\ out' = [op |-> "generate_geometry", k |-> <<>>, val |-> <<ratio, curv>>]
    /\ UNCHANGED <<last_scalar, raised>>
    /\ UNCHANGED gvars

ComputePhases(steer, focal) ==
    LET r == compute_phases(array, steer, focal)
    IN /\ array' = r.self
       /\ out' = [op |-> "compute_phases", k |-> r.k, val |-> <<steer, focal>>]
       /\ UNCHANGED <<last_scalar, raised>>
       /\ UNCHANGED gvars

GetElectricField ==
    LET r == get_electric_field(array, ProbeGrid.x, ProbeGrid.y)
    IN /\ array' = r.self
       /\ out' = [op |-> "get_electric_field", k |-> r.k, val |-> r.val]
       /\ UNCHANGED <<last_scalar, raised>>
       /\ UNCHANGED gvars

CalculateAzimuthProfile ==
    LET r == calculate_azimuth_profile(array, AnglesDeg)
    IN /\ array' = r.self
       /\ out' = [op |-> "calculate_azimuth_profile", k |-> r.k, val |-> r.val]
       /\ UNCHANGED <<last_scalar, raised>>
       /\ UNCHANGED gvars

NextArray ==
    \/ \E n \in CountSet : SetElementCount(n)
    \/ \E v \in SpeedSet : SetSpeed(v)
    \/ \E fl \in FreqLists : UpdateFrequencies(fl)
    \/ \E ratio \in RatioSet, curv \in CurvSet : GenerateGeometry(ratio, curv)
    \/ \E steer \in SteerSet, focal \in FocalSet : ComputePhases(steer, focal)
    \/ GetElectricField
    \/ CalculateAzimuthProfile

SpecArray == InitArray /\ [][NextArray]_vars

(***************************************************************************)
(* The grid manager: the single-array controller that owns the Array and   *)
(* the sample grid (SystemController(resolution), update_parameters,       *)
(* calculate_total_field).                                                 *)
(***************************************************************************)
MaxRes == 2

ResSet == 2..MaxRes

Ln2 == 693
NormEps == 1

\* a configuration: every option is absent (<<>>) or present (<<value>>);
\* a focus target is <<tx, ty>>, the spacing unit "wavelength" or "meter"
Config(ps, gw, gd, ec, fr, cu, sv, su, sa, ft) ==
    [propagation_speed |-> ps, grid_width |-> gw, grid_depth |-> gd,
     element_count |-> ec, frequencies |-> fr, curvature |-> cu,
     spacing_value |-> sv, spacing_unit |-> su, steer_angle |-> sa,
     focus_target |-> ft]

new_grid(w, d, res) ==
    LET g == make_grid(w, d, res)
    IN [width |-> w, depth |-> d, resolution |-> res, x |-> g.x, y |-> g.y]

\* an absent propagation_speed read as the default speed
apply_speed_default(st, cfg) ==
    IF cfg.propagation_speed # <<>>
    THEN [st EXCEPT !.array.c = cfg.propagation_speed[1]]
    ELSE [st EXCEPT !.array.c = DefaultSpeed]

\* 1. propagation_speed
apply_speed(st, cfg) ==
    IF cfg.propagation_speed # <<>>
    THEN [st EXCEPT !.array.c = cfg.propagation_speed[1]]
    ELSE st

\* the extents are taken over and the old sample coordinates kept
apply_grid_stale(st, cfg) ==
    LET w == IF cfg.grid_width # <<>> THEN cfg.grid_width[1] ELSE st.grid.width
        d == IF cfg.grid_depth # <<>> THEN cfg.grid_depth[1] ELSE st.grid.depth
    IN [st EXCEPT !.grid.width = w, !.grid.depth = d]

\* 2. grid_width, grid_depth: regenerate when either differs
apply_grid(st, cfg) ==
    LET w == IF cfg.grid_width # <<>> THEN cfg.grid_width[1] ELSE st.grid.width
        d == IF cfg.grid_depth # <<>> THEN cfg.grid_depth[1] ELSE st.grid.depth
    IN IF w # st.grid.width \/ d # st.grid.depth
       THEN [st EXCEPT !.grid = new_grid(w, d, st.grid.resolution)]
       ELSE st

\* 3. element_count
apply_count(st, cfg) ==
    IF cfg.element_count # <<>> /\ cfg.element_count[1] # st.array.num_elements
    THEN [st EXCEPT
            !.array = set_element_count(st.array, st.last_scalar,
                                        cfg.element_count[1])]
    ELSE st

\* 4. frequencies
apply_frequencies(st, cfg) ==
    IF cfg.frequencies # <<>>
    THEN LET fl == cfg.frequencies[1]
         IN [st EXCEPT
               !.array = update_frequencies(st.array, fl),
               !.last_scalar = IF Len(fl) # st.array.num_elements
                               THEN (IF Len(fl) > 0 THEN fl[1] ELSE DefaultFreq)
                               ELSE st.last_scalar]
    ELSE st

\* a spacing in tenths of the length unit as tenths of the minimum wavelength
meters_to_ratio(self, meters) ==
    RDiv(meters * SeqMax(self.frequencies), self.c)

\* 5. curvature, spacing
apply_geometry(st, cfg) ==
    IF cfg.curvature # <<>> \/ cfg.spacing_value # <<>>
    THEN LET curv == IF cfg.curvature # <<>>
                     THEN cfg.curvature[1] ELSE st.array.curvature
             ratio == IF cfg.spacing_value = <<>> THEN st.spacing
                      ELSE IF cfg.spacing_unit = "meter"
                      THEN meters_to_ratio(st.array, cfg.spacing_value[1])
                      ELSE cfg.spacing_value[1]
         IN [st EXCEPT
               !.array = generate_geometry(st.array, ratio, curv),
               !.spacing = ratio]
    ELSE st

\* step 6 taken only when a steering angle or a focus target is given
apply_phases_when_requested(st, cfg) ==
    IF cfg.steer_angle # <<>> \/ cfg.focus_target # <<>>
    THEN LET steer == IF cfg.steer_angle # <<>> THEN cfg.steer_angle ELSE <<0>>
         IN [st EXCEPT
               !.array = compute_phases(st.array, steer, cfg.focus_target).self]
    ELSE st

\* 6. steer_angle, focus_target
apply_phases(st, cfg) ==
    IF \/ cfg.curvature # <<>> \/ cfg.spacing_value # <<>>
       \/ cfg.steer_angle # <<>> \/ cfg.focus_target # <<>>
    THEN LET steer == IF cfg.steer_angle # <<>> THEN cfg.steer_angle ELSE <<0>>
         IN [st EXCEPT
               !.array = compute_phases(st.array, steer, cfg.focus_target).self]
    ELSE st

\* update_parameters placing the elements before it takes the frequencies over
update_parameters_geometry_first(st, cfg) ==
    apply_phases(
      apply_frequencies(
        apply_geometry(
          apply_count(apply_grid(apply_speed(st, cfg), cfg), cfg), cfg), cfg), cfg)

\* update_parameters: the options present, in the fixed order 1..6
update_parameters(st, cfg) ==
    apply_phases(
      apply_geometry(
        apply_frequencies(
          apply_count(apply_grid(apply_speed(st, cfg), cfg), cfg), cfg), cfg), cfg)

\* ln(y / Milli) in 1/Milli for y >= Milli: halve into [Milli, 2 Milli), then
\* the series 2 (z + z^3/3 + z^5/5), z = (y - Milli) / (y + Milli)
RECURSIVE LnFix(_)
LnFix(y) ==
    IF y >= 2 * Milli THEN Ln2 + LnFix(RDiv(y, 2))
    ELSE LET z == RDiv((y - Milli) * Milli, y + Milli)
             z2 == RDiv(z * z, Milli)
         IN 2 * (z + RDiv(z * z2, 3 * Milli) + RDiv(z * z2 * z2, 5 * Milli * Milli))

\* np.log1p
Log1p(v) == LnFix(Milli + v)

\* |field|, log-compressed
log_compress(field) ==
    [r \in 1..Len(field) |->
       [q \in 1..Len(field[r]) |-> Log1p(Hypot(field[r][q][1], field[r][q][2]))]]

MatrixValues(m) == {m[r][q] : r \in 1..Len(m), q \in 1..Len(m[1])}

SetMinimum(S) == CHOOSE v \in S : \A w \in S : v <= w

SetMaximum(S) == CHOOSE v \in S : \A w \in S : v >= w

\* the compressed field handed on as it is
normalize_skipped(m) == m

\* a degenerate grid handed back as it is
normalize_flat_unchanged(m) ==
    LET lo == SetMinimum(MatrixValues(m))
        hi == SetMaximum(MatrixValues(m))
    IN IF hi - lo < NormEps
       THEN m
       ELSE [r \in 1..Len(m) |->
               [q \in 1..Len(m[r]) |-> RDiv((m[r][q] - lo) * Milli, hi - lo)]]

\* min-max normalisation to [0, 1] (0..Milli); a degenerate grid gives zeros
normalize(m) ==
    LET lo == SetMinimum(MatrixValues(m))
        hi == SetMaximum(MatrixValues(m))
    IN IF hi - lo < NormEps
       THEN [r \in 1..Len(m) |-> [q \in 1..Len(m[r]) |-> 0]]
       ELSE [r \in 1..Len(m) |->
               [q \in 1..Len(m[r]) |-> RDiv((m[r][q] - lo) * Milli, hi - lo)]]

\* the configurations update_parameters is driven with: complete ones, as the
\* control wiring builds them, and ones with a single option
FullConfigs ==
    {Config(<<v>>,
            <<IF v = DefaultSpeed THEN DefaultExtent ELSE 2>>,
            <<IF v = DefaultSpeed THEN DefaultExtent ELSE 2>>,
            <<IF cu = 0 THEN 2 ELSE 1>>, <<<<2, 1>>>>, <<cu>>, <<5>>,
            "wavelength", <<30>>,
            IF cu = 0 THEN <<>> ELSE <<0, PosScale>>) :
        v \in SpeedSet, cu \in CurvSet}

NoConfig == Config(<<>>, <<>>, <<>>, <<>>, <<>>, <<>>, <<>>, "wavelength", <<>>, <<>>)

PartialConfigs ==
    {NoConfig}
    \cup {[NoConfig EXCEPT !.propagation_speed = <<6>>]}
    \cup {[NoConfig EXCEPT !.grid_width = <<2>>]}
    \cup {[NoConfig EXCEPT !.grid_depth = <<2>>]}
    \cup {[NoConfig EXCEPT !.element_count = <<n>>] : n \in CountSet}
    \cup {[NoConfig EXCEPT !.frequencies = <<<<2, 1>>>>]}
    \cup {[NoConfig EXCEPT !.curvature = <<5>>]}
    \cup {[NoConfig EXCEPT !.spacing_value = <<6>>, !.spacing_unit = "meter"]}
    \cup {[NoConfig EXCEPT !.steer_angle = <<30>>]}
    \cup {[NoConfig EXCEPT !.focus_target = <<0, PosScale>>]}

ConfigSet == FullConfigs \cup PartialConfigs

\* SystemController(resolution): a default Array and a default grid
Init ==
    /\ \E n \in CountSet : array = PhasedArray(0, n, 0)
    /\ last_scalar = DefaultFreq
    /\ raised = FALSE
    /\ out = NoOut
    /\ \E res \in ResSet : grid = new_grid(DefaultExtent, DefaultExtent, res)
    /\ spacing = DefaultSpacing
    /\ calls = NoCalls
    /\ arrays = <<>>

UpdateParameters(cfg) ==
    \E st \in {update_parameters(
                  [array |-> array, last_scalar |-> last_scalar,
                   grid |-> grid, spacing |-> spacing], cfg)} :
       /\ array' = st.array
       /\ last_scalar' = st.last_scalar
       /\ grid' = st.grid
       /\ spacing' = st.spacing
       /\ out' = [op |-> "update_parameters", k |-> <<>>, val |-> cfg]
       /\ UNCHANGED <<raised, arrays, calls>>

CalculateTotalField ==
    \E raw \in {get_electric_field(array, grid.x, grid.y)} :
       /\ array' = raw.self
       /\ out' = [op |-> "calculate_total_field", k |-> raw.k,
                   val |-> normalize(log_compress(raw.val))]
       /\ grid' = [grid EXCEPT !.x = raw.grid_x, !.y = raw.grid_y]
       /\ UNCHANGED <<last_scalar, raised, spacing, arrays, calls>>

Next ==
    \/ \E cfg \in ConfigSet : UpdateParameters(cfg)
    \/ CalculateTotalField
    \/ CalculateAzimuthProfile

Spec == Init /\ [][Next]_vars

(***************************************************************************)
(* The control wiring: update_graphs invocations on the one module-level   *)
(* controller. An invocation forwards its parameters to update_parameters, *)
(* then renders the field map, then the azimuth profile.                   *)
(***************************************************************************)
\* the keys update_parameters recognizes
RecognizedKeys ==
    {"propagation_speed", "grid_width", "grid_depth", "element_count",
     "frequencies", "curvature", "spacing_value", "spacing_unit",
     "steer_angle", "focus_target"}

RecognizedUnits == {"wavelength", "meter"}

\* the params dictionary update_graphs builds from its inputs; freqs is the
\* list of frequency sliders (<<>> when there is none), focus is None (<<>>)
\* for the 5g scenario and (fx, fy) otherwise
graph_params(num, curv, space_val, space_unit, angle, focus, freqs, wave_speed) ==
    [num_elements |-> num,
     curvature |-> curv,
     spacing_val |-> space_val,
     spacing_unit |-> space_unit,
     frequencies |-> IF freqs # <<>> THEN freqs ELSE ones_times(num, 1),
     steer_angle |-> angle,
     wave_speed |-> wave_speed,
     grid_width |-> DefaultExtent,
     grid_depth |-> DefaultExtent,
     focus_target |-> focus]

\* params.get(key): <<>> when the key is absent
Lookup(params, key) ==
    IF key \in DOMAIN params THEN <<params[key]>> ELSE <<>>

\* the options update_parameters finds in a mapping: the recognized keys it
\* holds; any other key is not looked at
read_config(params) ==
    Config(Lookup(params, "propagation_speed"),
           Lookup(params, "grid_width"),
           Lookup(params, "grid_depth"),
           Lookup(params, "element_count"),
           Lookup(params, "frequencies"),
           Lookup(params, "curvature"),
           Lookup(params, "spacing_value"),
           IF "spacing_unit" \in DOMAIN params THEN params.spacing_unit
           ELSE "wavelength",
           Lookup(params, "steer_angle"),
           IF "focus_target" \in DOMAIN params THEN params.focus_target ELSE <<>>)

\* what update_graphs is invoked with
GraphInputs ==
    {graph_params(2, 0, 5, "lambda", 30, <<>>, <<>>, DefaultSpeed),
     graph_params(2, 0, 5, "lambda", 0, <<>>, <<2, 1>>, DefaultSpeed),
     graph_params(2, 5, 5, "meter", 0, <<0, PosScale>>, <<>>, DefaultSpeed)}

Invocations == {1, 2}

InFlight(i) == calls[i].pc \in {"updated", "field"}

\* the field map and the profile of a controller state
FieldOf(snap) ==
    normalize(log_compress(
        get_electric_field(snap.array, snap.grid.x, snap.grid.y).val))

ProfileOf(snap) == calculate_azimuth_profile(snap.array, AnglesDeg).val

\* controller.update_parameters(params): the invocation starts
GraphsUpdate(i, params) ==
    /\ calls[i].pc \in {"idle", "done"}
    /\ \E st \in {update_parameters(
                     [array |-> array, last_scalar |-> last_scalar,
                      grid |-> grid, spacing |-> spacing],
                     read_config(params))} :
          /\ array' = st.array
          /\ last_scalar' = st.last_scalar
          /\ grid' = st.grid
          /\ spacing' = st.spacing
          /\ calls' = [j \in Invocations |->
                         IF j = i
                         THEN [pc |-> "updated", params |-> params,
                               snap |-> [array |-> st.array, grid |-> st.grid],
                               field |-> <<>>, profile |-> <<>>,
                               exclusive |-> \A h \in Invocations \ {i} :
                                                ~InFlight(h)]
                         ELSE IF InFlight(j)
                         THEN [calls[j] EXCEPT !.exclusive = FALSE]
                         ELSE calls[j]]
    /\ out' = [op |-> "update_graphs", k |-> <<>>, val |-> params]
    /\ UNCHANGED <<raised, arrays>>

\* field_mag = controller.calculate_total_field()
GraphsField(i) ==
    /\ calls[i].pc = "updated"
    /\ \E raw \in {get_electric_field(array, grid.x, grid.y)} :
          \E mag \in {normalize(log_compress(raw.val))} :
             /\ array' = raw.self
             /\ grid' = [grid EXCEPT !.x = raw.grid_x, !.y = raw.grid_y]
             /\ calls' = [calls EXCEPT ![i].pc = "field", ![i].field = mag]
             /\ out' = [op |-> "calculate_total_field", k |-> raw.k, val |-> mag]
    /\ UNCHANGED <<last_scalar, raised, spacing, arrays>>

\* profile = controller.array.calculate_azimuth_profile(angles)
GraphsProfile(i) ==
    /\ calls[i].pc = "field"
    /\ \E r \in {calculate_azimuth_profile(array, AnglesDeg)} :
          /\ array' = r.self
          /\ calls' = [calls EXCEPT ![i].pc = "done", ![i].profile = r.val]
          /\ out' = [op |-> "calculate_azimuth_profile", k |-> r.k, val |-> r.val]
    /\ UNCHANGED <<last_scalar, raised, grid, spacing, arrays>>

NextGraphs ==
    \/ \E i \in Invocations : \E params \in GraphInputs : GraphsUpdate(i, params)
    \/ \E i \in Invocations : GraphsField(i)
    \/ \E i \in Invocations : GraphsProfile(i)

SpecGraphs == Init /\ [][NextGraphs]_vars

(***************************************************************************)
(* The element-list controller: a list of arrays, each a list of antenna   *)
(* elements, addressed by array index and element index.                   *)
(***************************************************************************)
MaxArrays == 2

ElementCounts == {1, 2}

ArrayIds == -1..MaxArrays

ElementIds == -1..2

\* the 'id' key of create_array_unit: absent, or an explicit 0
CreateIds == {<<>>, <<0>>}

IdLists == {<<>>, <<<<0>>>>, <<<<0, MaxArrays>>>>, <<<<-1, 1>>>>}

ElementSpacing == 600
BeamDistance == 1200
DistanceFloor == 1

\* AntennaElement(x_position, y_position, frequency, phase_shift)
AntennaElement(x_position, y_position, frequency, phase_shift) ==
    [x_position |-> x_position, y_position |-> y_position,
     frequency |-> frequency, phase_shift |-> phase_shift]

\* PhasedArray(array_id, curvature_type) followed by set_geometry:
\* num_elements elements, spacing apart along the x axis and centred on 0, all
\* at the one frequency and at phase 0. The curvature type is recorded; the
\* depth profile of the curved types is left flat.
set_geometry(array_id, curvature_type, num_elements, frequency, sp) ==
    [id |-> array_id, curvature_type |-> curvature_type,
     elements |-> [i \in 1..num_elements |->
                     AntennaElement(RDiv((2 * (i - 1) - (num_elements - 1)) * sp, 2),
                                    0, frequency, 0)]]

is_valid_array_id(arrs, array_id) == 0 <= array_id /\ array_id < Len(arrs)

is_valid_element_id(arrs, array_id, element_id) ==
    IF ~is_valid_array_id(arrs, array_id) THEN FALSE
    ELSE 0 <= element_id /\ element_id < Len(arrs[array_id + 1].elements)

\* create_array_unit whose array always takes the length of the list as id
create_array_unit_indexed(arrs, id, num_elements, frequency, sp) ==
    Append(arrs, set_geometry(Len(arrs), "linear", num_elements, frequency, sp))

\* param_dict.get('id', len(self.arrays)): id is <<>> when the key is absent
create_array_unit(arrs, id, num_elements, frequency, sp) ==
    LET array_id == IF id # <<>> THEN id[1] ELSE Len(arrs)
    IN Append(arrs, set_geometry(array_id, "linear", num_elements, frequency, sp))

\* pop(array_id) leaving the remaining arrays' ids as they are
remove_array_keep_ids(arrs, array_id) ==
    IF is_valid_array_id(arrs, array_id)
    THEN [i \in 1..(Len(arrs) - 1) |->
            IF i <= array_id THEN arrs[i] ELSE arrs[i + 1]]
    ELSE arrs

\* pop(array_id), then the remaining arrays take their index as id
remove_array(arrs, array_id) ==
    IF is_valid_array_id(arrs, array_id)
    THEN [i \in 1..(Len(arrs) - 1) |->
            [(IF i <= array_id THEN arrs[i] ELSE arrs[i + 1]) EXCEPT !.id = i - 1]]
    ELSE arrs

clear_all_arrays(arrs) == <<>>

\* returns True or False; nothing is raised
update_element_frequency(arrs, array_id, element_id, freq) ==
    IF is_valid_element_id(arrs, array_id, element_id)
    THEN [arrays |-> [arrs EXCEPT
                        ![array_id + 1].elements[element_id + 1].frequency = freq],
          ret |-> <<TRUE>>, raised |-> FALSE]
    ELSE [arrays |-> arrs, ret |-> <<FALSE>>, raised |-> FALSE]

\* the beamforming package's controller: returns None; nothing is raised
beamforming_update_element_frequency(arrs, array_id, element_id, freq) ==
    IF 0 <= array_id /\ array_id < Len(arrs)
    THEN IF 0 <= element_id /\ element_id < Len(arrs[array_id + 1].elements)
         THEN [arrays |-> [arrs EXCEPT
                  ![array_id + 1].elements[element_id + 1].frequency = freq],
               ret |-> <<>>, raised |-> FALSE]
         ELSE [arrays |-> arrs, ret |-> <<>>, raised |-> FALSE]
    ELSE [arrays |-> arrs, ret |-> <<>>, raised |-> FALSE]

\* _get_array_settings: None (<<>>) for an array without elements, else
\* the count, the first element's frequency and the distance between the
\* first two elements (the default spacing for a single element)
get_array_settings(arr) ==
    IF Len(arr.elements) = 0 THEN <<>>
    ELSE LET n == Len(arr.elements)
         IN <<[num_elements |-> n,
               frequency |-> arr.elements[1].frequency,
               spacing |-> IF n >= 2
                           THEN Hypot(arr.elements[2].x_position
                                        - arr.elements[1].x_position,
                                      arr.elements[2].y_position
                                        - arr.elements[1].y_position)
                           ELSE ElementSpacing]>>

\* the array rebuilt by set_geometry, keeping its id
regenerate(arr, curvature_type, num_elements, frequency, sp) ==
    set_geometry(arr.id, curvature_type, num_elements, frequency, sp)

add_element_to_array(arrs, array_id) ==
    IF ~is_valid_array_id(arrs, array_id)
    THEN [arrays |-> arrs, ret |-> <<FALSE>>]
    ELSE LET arr == arrs[array_id + 1]
             settings == get_array_settings(arr)
         IN IF settings = <<>>
            THEN [arrays |-> arrs, ret |-> <<FALSE>>]
            ELSE [arrays |-> [arrs EXCEPT ![array_id + 1] =
                     regenerate(arr, arr.curvature_type,
                                settings[1].num_elements + 1,
                                settings[1].frequency, settings[1].spacing)],
                  ret |-> <<TRUE>>]

\* set_array_element_count without the check of num_elements
set_array_element_count_unchecked(arrs, array_id, num_elements) ==
    IF ~is_valid_array_id(arrs, array_id)
    THEN [arrays |-> arrs, ret |-> <<FALSE>>]
    ELSE LET arr == arrs[array_id + 1]
             settings == get_array_settings(arr)
         IN IF settings = <<>>
            THEN [arrays |-> arrs, ret |-> <<FALSE>>]
            ELSE [arrays |-> [arrs EXCEPT ![array_id + 1] =
                     regenerate(arr, arr.curvature_type, Max2(num_elements, 0),
                                settings[1].frequency, settings[1].spacing)],
                  ret |-> <<TRUE>>]

set_array_element_count(arrs, array_id, num_elements) ==
    IF ~is_valid_array_id(arrs, array_id)
    THEN [arrays |-> arrs, ret |-> <<FALSE>>]
    ELSE IF num_elements < 1
    THEN [arrays |-> arrs, ret |-> <<FALSE>>]
    ELSE LET arr == arrs[array_id + 1]
             settings == get_array_settings(arr)
         IN IF settings = <<>>
            THEN [arrays |-> arrs, ret |-> <<FALSE>>]
            ELSE [arrays |-> [arrs EXCEPT ![array_id + 1] =
                     regenerate(arr, arr.curvature_type, num_elements,
                                settings[1].frequency, settings[1].spacing)],
                  ret |-> <<TRUE>>]

update_array_curvature(arrs, array_id, curvature_type) ==
    IF ~is_valid_array_id(arrs, array_id)
    THEN [arrays |-> arrs, ret |-> <<FALSE>>]
    ELSE LET arr == arrs[array_id + 1]
             settings == get_array_settings(arr)
         IN IF settings = <<>>
            THEN [arrays |-> arrs, ret |-> <<FALSE>>]
            ELSE [arrays |-> [arrs EXCEPT ![array_id + 1] =
                     regenerate(arr, curvature_type, settings[1].num_elements,
                                settings[1].frequency, settings[1].spacing)],
                  ret |-> <<TRUE>>]

\* PhasedArray.steer_beam of the element-list array: each element's phase
\* shift becomes -k (x sin(angle) + y cos(angle)), k = 2 pi frequency
steer_beam(arr, angle) ==
    LET angle_rad == Deg2Rad(angle)
    IN [arr EXCEPT !.elements =
          [i \in 1..Len(arr.elements) |->
             LET el == arr.elements[i]
                 k == TwoPi * el.frequency
             IN [el EXCEPT !.phase_shift =
                   -RDiv(RDiv(k * el.x_position, PosScale) * Sin(angle_rad)
                         + RDiv(k * el.y_position, PosScale) * Cos(angle_rad),
                         Milli)]]]

steer_array_beam(arrs, array_id, angle) ==
    IF is_valid_array_id(arrs, array_id)
    THEN [arrays |-> [arrs EXCEPT ![array_id + 1] = steer_beam(@, angle)],
          ret |-> <<TRUE>>]
    ELSE [arrays |-> arrs, ret |-> <<FALSE>>]

\* update_element_frequency for every element of the array
update_array_frequency(arrs, array_id, frequency) ==
    IF ~is_valid_array_id(arrs, array_id)
    THEN [arrays |-> arrs, ret |-> <<FALSE>>]
    ELSE [arrays |-> [arrs EXCEPT ![array_id + 1].elements =
                        [i \in 1..Len(@) |-> [@[i] EXCEPT !.frequency = frequency]]],
          ret |-> <<TRUE>>]

update_element_phase(arrs, array_id, element_id, phase) ==
    IF is_valid_element_id(arrs, array_id, element_id)
    THEN [arrays |-> [arrs EXCEPT
                        ![array_id + 1].elements[element_id + 1].phase_shift = phase],
          ret |-> <<TRUE>>]
    ELSE [arrays |-> arrs, ret |-> <<FALSE>>]

\* update_element_phase for every element of the array
update_array_phases(arrs, array_id, phase) ==
    IF ~is_valid_array_id(arrs, array_id)
    THEN [arrays |-> arrs, ret |-> <<FALSE>>]
    ELSE [arrays |-> [arrs EXCEPT ![array_id + 1].elements =
                        [i \in 1..Len(@) |-> [@[i] EXCEPT !.phase_shift = phase]]],
          ret |-> <<TRUE>>]

\* AntennaElement.compute_field_contribution at one point, as <<re, im>>:
\* (1 / r) exp(j (k r + phase_shift)), k = 2 pi frequency
compute_field_contribution(el, px, py) ==
    LET d == Hypot(px - el.x_position, py - el.y_position)
        r == IF d = 0 THEN DistanceFloor ELSE d
        k == IF el.frequency > 0 THEN TwoPi * el.frequency ELSE TwoPi
        amp == RDiv(Milli * PosScale, r)
        theta == (RDiv(k * r, PosScale) + el.phase_shift) % TwoPi
    IN <<RDiv(amp * Cos(theta), Milli), RDiv(amp * Sin(theta), Milli)>>

\* the array's field at one point: the sum of its elements' contributions
RECURSIVE get_total_field(_, _, _, _)
get_total_field(arr, i, px, py) ==
    IF i = 0 THEN <<0, 0>>
    ELSE LET rest == get_total_field(arr, i - 1, px, py)
             t == compute_field_contribution(arr.elements[i], px, py)
         IN <<rest[1] + t[1], rest[2] + t[2]>>

RECURSIVE arrays_field(_, _, _, _)
arrays_field(arrs, j, px, py) ==
    IF j = 0 THEN <<0, 0>>
    ELSE LET rest == arrays_field(arrs, j - 1, px, py)
             t == get_total_field(arrs[j], Len(arrs[j].elements), px, py)
         IN <<rest[1] + t[1], rest[2] + t[2]>>

\* calculate_beam_profile(array_ids, distance, angles): array_ids is None
\* (<<>>) or a list (<<list>>); ids outside the list of arrays are dropped
calculate_beam_profile(arrs, array_ids, distance, angles_deg) ==
    LET arrays_to_use ==
          IF array_ids = <<>> THEN arrs
          ELSE LET ok == SelectSeq(array_ids[1],
                                   LAMBDA i : 0 <= i /\ i < Len(arrs))
               IN [j \in 1..Len(ok) |-> arrs[ok[j] + 1]]
    IN [used |-> [j \in 1..Len(arrays_to_use) |-> arrays_to_use[j].id],
        val |-> [a \in 1..Len(angles_deg) |->
                   LET px == RDiv(distance * Sin(Deg2Rad(angles_deg[a])), Milli)
                       py == RDiv(distance * Cos(Deg2Rad(angles_deg[a])), Milli)
                       z == arrays_field(arrays_to_use, Len(arrays_to_use), px, py)
                   IN Hypot(z[1], z[2])],
        raised |-> FALSE]

\* SystemController(): no arrays
InitCtl ==
    /\ arrays = <<>>
    /\ array = PhasedArray(0, 1, 0)
    /\ last_scalar = DefaultFreq
    /\ raised = FALSE
    /\ out = NoOut
    /\ grid = NoGrid
    /\ spacing = DefaultSpacing
    /\ calls = NoCalls

CreateArrayUnit(id, n) ==
    /\ Len(arrays) < MaxArrays
    /\ arrays' = create_array_unit(arrays, id, n, DefaultFreq, ElementSpacing)
    /\ out' = [op |-> "create_array_unit", k |-> <<>>, val |-> <<id, n>>]
    /\ raised' = FALSE
    /\ UNCHANGED <<array, last_scalar, grid, spacing, calls>>

RemoveArray(array_id) ==
    /\ arrays' = remove_array(arrays, array_id)
    /\ out' = [op |-> "remove_array", k |-> <<>>, val |-> <<array_id>>]
    /\ raised' = FALSE
    /\ UNCHANGED <<array, last_scalar, grid, spacing, calls>>

ClearAllArrays ==
    /\ arrays' = clear_all_arrays(arrays)
    /\ out' = [op |-> "clear_all_arrays", k |-> <<>>, val |-> <<>>]
    /\ raised' = FALSE
    /\ UNCHANGED <<array, last_scalar, grid, spacing, calls>>

UpdateElementFrequency(array_id, element_id, freq) ==
    \E r \in {update_element_frequency(arrays, array_id, element_id, freq)} :
       /\ arrays' = r.arrays
       /\ raised' = r.raised
       /\ out' = [op |-> "update_element_frequency", k |-> <<>>,
                   val |-> <<array_id, element_id, r.ret>>]
       /\ UNCHANGED <<array, last_scalar, grid, spacing, calls>>

BeamformingUpdateElementFrequency(array_id, element_id, freq) ==
    \E r \in {beamforming_update_element_frequency(arrays, array_id,
                                                     element_id, freq)} :
       /\ arrays' = r.arrays
       /\ raised' = r.raised
       /\ out' = [op |-> "beamforming.update_element_frequency", k |-> <<>>,
                   val |-> <<array_id, element_id, r.ret>>]
       /\ UNCHANGED <<array, last_scalar, grid, spacing, calls>>

CalculateBeamProfile(array_ids) ==
    \E r \in {calculate_beam_profile(arrays, array_ids, BeamDistance, AnglesDeg)} :
       /\ raised' = r.raised
       /\ out' = [op |-> "calculate_beam_profile", k |-> <<>>,
                   val |-> <<array_ids, r.used, r.val>>]
       /\ UNCHANGED <<array, last_scalar, grid, spacing, arrays, calls>>

NextCtl ==
    \/ \E id \in CreateIds : \E n \in ElementCounts : CreateArrayUnit(id, n)
    \/ \E a \in ArrayIds : RemoveArray(a)
    \/ ClearAllArrays
    \/ \E a \in ArrayIds : \E e \in ElementIds : UpdateElementFrequency(a, e, 2)
    \/ \E a \in ArrayIds : \E e \in ElementIds :
          BeamformingUpdateElementFrequency(a, e, 2)
    \/ \E ids \in IdLists : CalculateBeamProfile(ids)

SpecCtl == InitCtl /\ [][NextCtl]_vars

(***************************************************************************)
(* The controller's array-level mutators, each addressed by array index.   *)
(***************************************************************************)
MaxCtlElements == 3

CountInputs == {0, 1, MaxCtlElements}

CurvatureTypes == {"linear", "convex"}

AddElementToArray(array_id) ==
    /\ is_valid_array_id(arrays, array_id)
          => Len(arrays[array_id + 1].elements) < MaxCtlElements
    /\ \E r \in {add_element_to_array(arrays, array_id)} :
          /\ arrays' = r.arrays
          /\ out' = [op |-> "add_element_to_array", k |-> <<>>,
                      val |-> <<array_id, r.ret>>]
    /\ raised' = FALSE
    /\ UNCHANGED <<array, last_scalar, grid, spacing, calls>>

SetArrayElementCount(array_id, num_elements) ==
    /\ \E r \in {set_array_element_count(arrays, array_id, num_elements)} :
          /\ arrays' = r.arrays
          /\ out' = [op |-> "set_array_element_count", k |-> <<>>,
                      val |-> <<array_id, num_elements, r.ret>>]
    /\ raised' = FALSE
    /\ UNCHANGED <<array, last_scalar, grid, spacing, calls>>

UpdateArrayCurvature(array_id, curvature_type) ==
    /\ \E r \in {update_array_curvature(arrays, array_id, curvature_type)} :
          /\ arrays' = r.arrays
          /\ out' = [op |-> "update_array_curvature", k |-> <<>>,
                      val |-> <<array_id, curvature_type, r.ret>>]
    /\ raised' = FALSE
    /\ UNCHANGED <<array, last_scalar, grid, spacing, calls>>

SteerArrayBeam(array_id, angle) ==
    /\ \E r \in {steer_array_beam(arrays, array_id, angle)} :
          /\ arrays' = r.arrays
          /\ out' = [op |-> "steer_array_beam", k |-> <<>>,
                      val |-> <<array_id, angle, r.ret>>]
    /\ raised' = FALSE
    /\ UNCHANGED <<array, last_scalar, grid, spacing, calls>>

UpdateArrayFrequency(array_id, frequency) ==
    /\ \E r \in {update_array_frequency(arrays, array_id, frequency)} :
          /\ arrays' = r.arrays
          /\ out' = [op |-> "update_array_frequency", k |-> <<>>,
                      val |-> <<array_id, frequency, r.ret>>]
    /\ raised' = FALSE
    /\ UNCHANGED <<array, last_scalar, grid, spacing, calls>>

UpdateArrayPhases(array_id, phase) ==
    /\ \E r \in {update_array_phases(arrays, array_id, phase)} :
          /\ arrays' = r.arrays
          /\ out' = [op |-> "update_array_phases", k |-> <<>>,
                      val |-> <<array_id, phase, r.ret>>]
    /\ raised' = FALSE
    /\ UNCHANGED <<array, last_scalar, grid, spacing, calls>>

\* a controller after create_array_unit was called once
InitMut ==
    /\ \E n \in ElementCounts :
          arrays = create_array_unit(<<>>, <<>>, n, DefaultFreq, ElementSpacing)
    /\ array = PhasedArray(0, 1, 0)
    /\ last_scalar = DefaultFreq
    /\ raised = FALSE
    /\ out = NoOut
    /\ grid = NoGrid
    /\ spacing = DefaultSpacing
    /\ calls = NoCalls

NextMut ==
    \/ \E a \in ArrayIds : RemoveArray(a)
    \/ \E a \in ArrayIds : UpdateElementFrequency(a, 1, 2)
    \/ \E a \in ArrayIds : AddElementToArray(a)
    \/ \E a \in ArrayIds : \E n \in CountInputs : SetArrayElementCount(a, n)
    \/ \E a \in ArrayIds : \E t \in CurvatureTypes : UpdateArrayCurvature(a, t)
    \/ \E a \in ArrayIds : SteerArrayBeam(a, 30)
    \/ \E a \in ArrayIds : UpdateArrayFrequency(a, 2)
    \/ \E a \in ArrayIds : UpdateArrayPhases(a, 500)

SpecMut == InitMut /\ [][NextMut]_vars

(***************************************************************************)
(* Geometry and phases on their own: generate_geometry and compute_phases  *)
(* applied to arrays of every count, frequency pattern and speed.          *)
(***************************************************************************)
GeoCounts == 1..(MaxElements + 1)

\* uniform at either frequency, or the first element at the higher one
GeoFreqs(n) ==
    {ones_times(n, 1), ones_times(n, 2), [i \in 1..n |-> IF i = 1 THEN 2 ELSE 1]}

GeoRatios == {5, 10}

GeoCurvs == {0, 5, 20}

GeoSteers == {<<>>, <<0>>, <<30>>, <<-30>>}

GeoFocals == {<<>>, <<0, PosScale>>, <<600, 2 * PosScale>>}

InitGeo ==
    /\ \E n \in GeoCounts : \E f \in GeoFreqs(n) : \E v \in SpeedSet :
          array = [PhasedArray(0, n, 0) EXCEPT !.frequencies = f, !.c = v]
    /\ last_scalar = DefaultFreq
    /\ raised = FALSE
    /\ out = NoOut
    /\ grid = NoGrid
    /\ spacing = DefaultSpacing
    /\ calls = NoCalls
    /\ arrays = <<>>

NextGeo ==
    \/ \E ratio \in GeoRatios, curv \in GeoCurvs : GenerateGeometry(ratio, curv)
    \/ \E steer \in GeoSteers, focal \in GeoFocals : ComputePhases(steer, focal)

SpecGeo == InitGeo /\ [][NextGeo]_vars

(***************************************************************************)
(* The resize scenario: an Array of 8 or 9 elements driven through         *)
(* update_parameters.                                                      *)
(***************************************************************************)
ResizeCounts == {8, 9}

ResizeRatios == {5, 10}

\* a scalar at either frequency, or one value per element of an 8-element
\* array with the first element at the higher frequency
ResizeFreqs == {<<1>>, <<2>>, [i \in 1..8 |-> IF i = 1 THEN 2 ELSE 1]}

ResizeConfigs ==
    {[NoConfig EXCEPT !.element_count = <<n>>, !.spacing_value = <<r>>,
                      !.curvature = <<0>>] : n \in ResizeCounts, r \in ResizeRatios}
    \cup {[NoConfig EXCEPT !.frequencies = <<fl>>] : fl \in ResizeFreqs}
    \cup {[NoConfig EXCEPT !.spacing_value = <<r>>] : r \in ResizeRatios}
    \cup {[NoConfig EXCEPT !.element_count = <<n>>] : n \in ResizeCounts}
    \cup {[NoConfig EXCEPT !.propagation_speed = <<c>>] : c \in SpeedSet}

InitResize ==
    /\ array = PhasedArray(0, 8, 0)
    /\ last_scalar = DefaultFreq
    /\ raised = FALSE
    /\ out = NoOut
    /\ \E res \in ResSet : grid = new_grid(DefaultExtent, DefaultExtent, res)
    /\ spacing = DefaultSpacing
    /\ calls = NoCalls
    /\ arrays = <<>>

NextResize == \E cfg \in ResizeConfigs : UpdateParameters(cfg)

SpecResize == InitResize /\ [][NextResize]_vars

(***************************************************************************)
(* The 5G beam-steering scenario: an Array of 8 or 16 elements at 1 or 28   *)
(* frequency units, placed on a half-wavelength line, steered, and scanned *)
(* over the azimuth angles of the beam-profile plot.                       *)
(***************************************************************************)
ScenarioCounts == {8, 16}

ScenarioFreqs == {<<1>>, <<28>>}

ScenarioSteers == {<<0>>, <<30>>, <<-30>>}

\* the whole degrees of np.linspace(-90, 90, 361)
ScanAngles == [a \in 1..181 |-> a - 91]

InitScenario ==
    /\ \E n \in ScenarioCounts : array = PhasedArray(0, n, 0)
    /\ last_scalar = DefaultFreq
    /\ raised = FALSE
    /\ out = NoOut
    /\ grid = NoGrid
    /\ spacing = DefaultSpacing
    /\ calls = NoCalls
    /\ arrays = <<>>

\* controller.array.calculate_azimuth_profile(angles) of update_graphs
ScanAzimuthProfile ==
    \E r \in {calculate_azimuth_profile(array, ScanAngles)} :
       /\ array' = r.self
       /\ out' = [op |-> "calculate_azimuth_profile", k |-> r.k, val |-> r.val]
       /\ UNCHANGED <<last_scalar, raised>>
       /\ UNCHANGED gvars

NextScenario ==
    \/ \E fl \in ScenarioFreqs : UpdateFrequencies(fl)
    \/ GenerateGeometry(DefaultSpacing, 0)
    \/ \E steer \in ScenarioSteers : ComputePhases(steer, <<>>)
    \/ ScanAzimuthProfile

SpecScenario == InitScenario /\ [][NextScenario]_vars

(***************************************************************************)
(* Claims about the Array (SpecArray).                                     *)
(***************************************************************************)

\* C1: after any sequence of Array operations the x-position, y-position,
\* frequency and phase sequences each have exactly element_count entries.
C1_LengthsMatchCount ==
    /\ Len(array.x_coords) = array.num_elements
    /\ Len(array.y_coords) = array.num_elements
    /\ Len(array.frequencies) = array.num_elements
    /\ Len(array.phases) = array.num_elements

\* a resized, re-tuned, curved and steered array
C1_Witness ==
    /\ array.num_elements = 2
    /\ array.curvature # 0
    /\ array.x_coords # zeros(2)
    /\ array.phases # zeros(2)
    /\ array.frequencies = <<2, 2>>
    /\ array.c # DefaultSpeed

C3_WavenumberCurrent ==
    out.op \in {"compute_phases", "get_electric_field", "calculate_azimuth_profile"} =>
        /\ Len(out.k) = array.num_elements
        /\ \A i \in 1..array.num_elements :
              out.k[i] = RDiv(TwoPi * array.frequencies[i], array.c)

\* a field evaluation after both the speed and the frequencies were changed
C3_Witness ==
    /\ out.op = "get_electric_field"
    /\ array.c # DefaultSpeed
    /\ array.frequencies = <<2, 1>>

\* C9: updating frequencies with a list of another length does not fail and
\* broadcasts the list's first value to all elements; a list of exactly
\* element_count values is stored element for element.
C9_FrequencyRepair ==
    out.op = "update_frequencies" =>
        LET fl == out.val
            n == array.num_elements
        IN /\ ~raised
           /\ Len(array.frequencies) = n
           /\ Len(fl) = n => array.frequencies = fl
           /\ (Len(fl) # n /\ Len(fl) > 0) =>
                 \A i \in 1..n : array.frequencies[i] = fl[1]

\* a list longer than the array, with a first value that differs from the rest
C9_Witness ==
    /\ out.op = "update_frequencies"
    /\ out.val = <<2, 1, 1>>
    /\ array.num_elements = 2
    /\ array.frequencies = <<2, 2>>

\* C21: a field evaluation and an azimuth-profile evaluation leave the
\* Array (count, positions, frequencies, phases, curvature, speed) as it was
\* and hand back the grids and the angle sequence they were passed unchanged.
C21_QueriesPure ==
    [][/\ out'.op = "get_electric_field" =>
            /\ array' = array
            /\ get_electric_field(array, ProbeGrid.x, ProbeGrid.y).grid_x = ProbeGrid.x
            /\ get_electric_field(array, ProbeGrid.x, ProbeGrid.y).grid_y = ProbeGrid.y
       /\ out'.op = "calculate_azimuth_profile" =>
            /\ array' = array
            /\ calculate_azimuth_profile(array, AnglesDeg).angles_deg = AnglesDeg]_vars

C21_Witness ==
    /\ out.op = "calculate_azimuth_profile"
    /\ array.num_elements = 2
    /\ array.curvature # 0
    /\ array.phases[1] # 0
    /\ array.c = 6
    /\ out.val[2] > 0

(***************************************************************************)
(* Claims about the grid manager (Spec).                                   *)
(***************************************************************************)
\* the grid a configuration's extents and the construction's resolution give
CurrentGrid == make_grid(grid.width, grid.depth, grid.resolution)

\* C4: the sample coordinates always match the current extents and
\* resolution, the extents are the ones the last configuration named, and
\* every calculate_total_field result is the evaluation over that grid.
C4_GridRegenerated ==
    /\ grid.x = CurrentGrid.x
    /\ grid.y = CurrentGrid.y
    /\ out.op = "update_parameters" =>
          /\ out.val.grid_width # <<>> => grid.width = out.val.grid_width[1]
          /\ out.val.grid_depth # <<>> => grid.depth = out.val.grid_depth[1]
    /\ out.op = "calculate_total_field" =>
          /\ Len(out.val) = grid.resolution
          /\ out.val = normalize(log_compress(
                 get_electric_field(array, CurrentGrid.x, CurrentGrid.y).val))

C4_Witness ==
    /\ out.op = "calculate_total_field"
    /\ grid.width = 2
    /\ grid.depth = DefaultExtent
    /\ grid.x # new_grid(DefaultExtent, DefaultExtent, grid.resolution).x
    /\ \E r \in 1..Len(out.val) : \E q \in 1..Len(out.val[r]) : out.val[r][q] > 0

\* C5: after update_parameters every option present has taken effect as if
\* applied in the order speed, grid, count, frequencies, geometry, phases:
\* the count and speed are the configured ones, the frequencies are the
\* configured list fitted to the new count, the positions are the geometry
\* of the new speed and new frequencies, and the phases are those of the new
\* positions.
C5_FixedOrder ==
    out.op = "update_parameters" =>
      LET cfg == out.val
          geo == cfg.curvature # <<>> \/ cfg.spacing_value # <<>>
          placed == generate_geometry(array, spacing, array.curvature)
          steer == IF cfg.steer_angle # <<>> THEN cfg.steer_angle ELSE <<0>>
      IN /\ cfg.propagation_speed # <<>> => array.c = cfg.propagation_speed[1]
         /\ cfg.element_count # <<>> => array.num_elements = cfg.element_count[1]
         /\ cfg.frequencies # <<>> =>
               array.frequencies =
                 update_frequencies(array, cfg.frequencies[1]).frequencies
         /\ cfg.curvature # <<>> => array.curvature = cfg.curvature[1]
         /\ (cfg.spacing_value # <<>> /\ cfg.spacing_unit = "wavelength") =>
               spacing = cfg.spacing_value[1]
         /\ geo => /\ array.x_coords = placed.x_coords
                   /\ array.y_coords = placed.y_coords
         /\ (geo \/ cfg.steer_angle # <<>> \/ cfg.focus_target # <<>>) =>
               array.phases =
                 compute_phases(array, steer, cfg.focus_target).self.phases

C5_Witness ==
    /\ out.op = "update_parameters"
    /\ out.val.propagation_speed = <<6>>
    /\ out.val.element_count = <<2>>
    /\ out.val.frequencies = <<<<2, 1>>>>
    /\ out.val.spacing_value # <<>>
    /\ out.val.steer_angle = <<30>>
    /\ array.c = 6
    /\ array.frequencies = <<2, 1>>
    /\ array.x_coords[1] # 0
    /\ array.phases[1] # 0

\* C6: a calculate_total_field step leaves the Array and the Grid as they
\* were, and directly after another calculate_total_field it returns the
\* same result.
C6_FieldQueryPure ==
    [][out'.op = "calculate_total_field" =>
         /\ array' = array
         /\ grid' = grid
         /\ spacing' = spacing
         /\ out.op = "calculate_total_field" => out'.val = out.val]_vars

C6_Witness ==
    /\ out.op = "calculate_total_field"
    /\ \E i \in 1..Len(array.phases) : array.phases[i] # 0
    /\ \E r \in 1..Len(out.val) : \E q \in 1..Len(out.val[r]) : out.val[r][q] > 0

CompressedField == log_compress(get_electric_field(array, grid.x, grid.y).val)

C26_PhasesFollowGeometry ==
    [][/\ (/\ out'.op = "update_parameters"
           /\ (out'.val.curvature # <<>> \/ out'.val.spacing_value # <<>>))
          => array'.phases =
               compute_phases(array',
                              IF out'.val.steer_angle # <<>>
                              THEN out'.val.steer_angle ELSE <<0>>,
                              out'.val.focus_target).self.phases
       /\ out'.op \in {"calculate_total_field", "calculate_azimuth_profile"}
          => /\ array'.x_coords = array.x_coords
             /\ array'.y_coords = array.y_coords
             /\ array'.phases = array.phases]_vars

C26_Witness ==
    /\ out.op = "update_parameters"
    /\ out.val = [NoConfig EXCEPT !.curvature = <<5>>]
    /\ array.num_elements = 2
    /\ array.curvature = 5
    /\ array.x_coords[1] # 0
    /\ array.y_coords[1] # 0
    /\ array.phases = zeros(2)

(***************************************************************************)
(* Claims about the element-list controller (SpecCtl).                     *)
(***************************************************************************)
\* C7: the controller holds exactly one array at every point of a session.
C7_ExactlyOneArray == Len(arrays) = 1

\* C8: an operation addressed to an element index or an array index out of
\* range raises an error.
C8_InvalidIndexRaises ==
    /\ (/\ out.op \in {"update_element_frequency",
                       "beamforming.update_element_frequency"}
        /\ ~is_valid_element_id(arrays, out.val[1], out.val[2])) => raised
    /\ (/\ out.op = "calculate_beam_profile"
        /\ out.val[1] # <<>>
        /\ \E j \in 1..Len(out.val[1][1]) :
              ~is_valid_array_id(arrays, out.val[1][1][j])) => raised

\* every array's id is its index in the list of arrays
IdsAreIndices(arrs) == \A i \in 1..Len(arrs) : arrs[i].id = i - 1

C12_SingleElementOrigin ==
    (out.op = "generate_geometry" /\ array.num_elements = 1) =>
       /\ array.x_coords = <<0>>
       /\ array.y_coords = <<0>>

C12_Witness ==
    /\ out.op = "generate_geometry"
    /\ array.num_elements = 1
    /\ out.val[2] # 0
    /\ array.curvature = out.val[2]
    /\ array.x_coords = <<0>>
    /\ array.y_coords = <<0>>

\* the pitch spacing_ratio * propagation_speed / min(frequencies) of the
\* last generate_geometry, in 1/PosScale
ClaimedPitch == RDiv(out.val[1] * array.c * PosScale, 10 * SeqMin(array.frequencies))

ClaimedRadius == RDiv(10 * PosScale, out.val[2])

\* the angle of element i (from 1) on the arc of the last generate_geometry
ClaimedAngle(i) ==
    linspace_sym(RDiv((array.num_elements - 1) * ClaimedPitch * Milli, ClaimedRadius),
                 array.num_elements, i - 1)

\* C14: at positive curvature every element has the depth
\* R * (1 - cos(angle_i)), which is >= 0.
C14_ArcPositiveDepth ==
    (out.op = "generate_geometry" /\ out.val[2] > 0) =>
       \A i \in 1..array.num_elements :
          /\ array.y_coords[i] >= 0
          /\ array.y_coords[i] =
                ClaimedRadius - RDiv(ClaimedRadius * Cos(ClaimedAngle(i)), Milli)

\* C15: at nonzero curvature every element lies at distance R = 1 / c from
\* the point (0, R), to within one hundredth of R.
C15_ArcCentre ==
    (out.op = "generate_geometry" /\ out.val[2] # 0) =>
       \A i \in 1..array.num_elements :
          Abs(Hypot(array.x_coords[i], array.y_coords[i] - ClaimedRadius)
              - ClaimedRadius) <= RDiv(ClaimedRadius, 100)

\* C16: compute_phases with steer_angle 0 and no focal point sets every
\* phase to 0, whatever the geometry, the frequencies and the phases stored.
C16_BroadsideZero ==
    (out.op = "compute_phases" /\ out.val = <<<<0>>, <<>>>>) =>
       \A i \in 1..array.num_elements : array.phases[i] = 0

C16_Witness ==
    /\ out.op = "compute_phases"
    /\ out.val = <<<<0>>, <<>>>>
    /\ array.num_elements = 3
    /\ array.frequencies = <<2, 1, 1>>
    /\ array.curvature # 0
    /\ array.x_coords[1] # 0
    /\ array.phases = <<0, 0, 0>>

\* the phases compute_phases gives the current array for the steering
\* argument alone and for the focal point alone
SteerOnly == compute_phases(array, out.val[1], <<>>).self.phases

FocusOnly == compute_phases(array, <<>>, out.val[2]).self.phases

\* C17: the phases compute_phases sets are the element-wise sum of the
\* steer-only and the focus-only phases; an absent steering angle and an
\* absent focal point each contribute 0.
C17_Additive ==
    out.op = "compute_phases" =>
       \A i \in 1..array.num_elements :
          /\ array.phases[i] = SteerOnly[i] + FocusOnly[i]
          /\ out.val[1] = <<>> => SteerOnly[i] = 0
          /\ out.val[2] = <<>> => FocusOnly[i] = 0
          /\ (out.val[1] = <<>> /\ out.val[2] = <<>>) => array.phases[i] = 0

C17_Witness ==
    /\ out.op = "compute_phases"
    /\ out.val[1] = <<30>>
    /\ out.val[2] = <<600, 2 * PosScale>>
    /\ array.num_elements = 3
    /\ SteerOnly[1] # 0
    /\ FocusOnly[1] # 0
    /\ array.phases[1] = SteerOnly[1] + FocusOnly[1]

\* the element positions mirror about the depth axis
SymmetricGeometry ==
    \A i \in 1..array.num_elements :
       /\ array.x_coords[i] = -array.x_coords[array.num_elements + 1 - i]
       /\ array.y_coords[i] = array.y_coords[array.num_elements + 1 - i]

\* C18: on a geometry symmetric about the origin and without a focal point,
\* the phases of steering to theta are the negatives of those of steering
\* to -theta.
C18_SteeringSymmetry ==
    (/\ out.op = "compute_phases"
     /\ out.val[1] # <<>>
     /\ out.val[2] = <<>>
     /\ SymmetricGeometry) =>
       \A i \in 1..array.num_elements :
          array.phases[i] =
            -compute_phases(array, <<-out.val[1][1]>>, <<>>).self.phases[i]

C18_Witness ==
    /\ out.op = "compute_phases"
    /\ out.val = <<<<30>>, <<>>>>
    /\ SymmetricGeometry
    /\ array.num_elements = 3
    /\ array.phases[1] > 0
    /\ array.phases[3] < 0

\* the distance of element i from the focal point of the last compute_phases
FocalDistance(i) ==
    Hypot(array.x_coords[i] - out.val[2][1], array.y_coords[i] - out.val[2][2])

\* C19: with a focal point and no steering every phase is >= 0 and an
\* element farthest from the focal point has phase 0.
C19_FocusNonNegative ==
    (/\ out.op = "compute_phases"
     /\ out.val[1] = <<>>
     /\ out.val[2] # <<>>) =>
       \A i \in 1..array.num_elements :
          /\ array.phases[i] >= 0
          /\ (\A j \in 1..array.num_elements : FocalDistance(j) <= FocalDistance(i))
                => array.phases[i] = 0

C19_Witness ==
    /\ out.op = "compute_phases"
    /\ out.val = <<<<>>, <<600, 2 * PosScale>>>>
    /\ array.num_elements = 3
    /\ array.phases[1] = 0
    /\ array.phases[2] > 0
    /\ array.phases[3] > array.phases[2]

\* distance_i + phase_i / k_i, in 1/PosScale
CompensatedDistance(i) ==
    FocalDistance(i) + RDiv(array.phases[i] * PosScale, out.k[i])

\* C20: with a focal point on the axis of symmetry and no steering,
\* distance_i + phase_i / k_i is the distance of the farthest element for
\* every element i, to within one unit of length resolution.
C20_FocusConvergence ==
    (/\ out.op = "compute_phases"
     /\ out.val[1] = <<>>
     /\ out.val[2] # <<>>
     /\ out.val[2][1] = 0
     /\ SymmetricGeometry) =>
       \A i \in 1..array.num_elements : \A j \in 1..array.num_elements :
          /\ Abs(CompensatedDistance(i) - CompensatedDistance(j)) <= 1
          /\ CompensatedDistance(i) >= FocalDistance(j) - 1

C20_Witness ==
    /\ out.op = "compute_phases"
    /\ out.val = <<<<>>, <<0, PosScale>>>>
    /\ SymmetricGeometry
    /\ array.num_elements = 3
    /\ array.frequencies = <<2, 1, 1>>
    /\ FocalDistance(2) < FocalDistance(1)
    /\ array.phases[2] > 0
    /\ array.phases[1] = 0

(***************************************************************************)
(* Claims about the resize scenario (SpecResize).                          *)
(***************************************************************************)
RECURSIVE SeqSum(_)
SeqSum(s) == IF Len(s) = 0 THEN 0 ELSE s[1] + SeqSum(Tail(s))

\* the array is a line of 8 elements, neighbours a positive pitch apart
LinearEight ==
    /\ array.num_elements = 8
    /\ array.curvature = 0
    /\ array.x_coords[2] - array.x_coords[1] > 0
    /\ \A i \in 1..7 :
          array.x_coords[i + 1] - array.x_coords[i]
            = array.x_coords[2] - array.x_coords[1]
    /\ \A i \in 1..8 : array.y_coords[i] = 0

\* the step is update_parameters with element_count 9 and the spacing ratio
\* in force, at curvature 0
ResizeToNine ==
    /\ out'.op = "update_parameters"
    /\ out'.val = [NoConfig EXCEPT !.element_count = <<9>>,
                                   !.spacing_value = <<spacing>>,
                                   !.curvature = <<0>>]

\* the array after the step: 9 positions of mean 0, neighbours as far apart
\* as the first two elements were before the step
NineSamePitch ==
    /\ array'.num_elements = 9
    /\ Len(array'.x_coords) = 9
    /\ SeqSum(array'.x_coords) = 0
    /\ \A i \in 1..8 :
          array'.x_coords[i + 1] - array'.x_coords[i]
            = array.x_coords[2] - array.x_coords[1]

Steered5G ==
    /\ array.num_elements = 16
    /\ array.curvature = 0
    /\ array.frequencies = ones_times(16, 28)
    /\ array.c = DefaultSpeed
    /\ array.x_coords = generate_geometry(array, 5, 0).x_coords
    /\ array.y_coords = zeros(16)
    /\ array.phases = compute_phases(array, <<30>>, <<>>).self.phases

\* the last operation scanned the azimuth profile
Scanned ==
    /\ out.op = "calculate_azimuth_profile"
    /\ Len(out.val) = Len(ScanAngles)

\* C24: for 16 elements, curvature 0, 28e9 Hz, 0.5 wavelength spacing,
\* c = 3e8 and steer 30 degrees, every maximum of calculate_azimuth_profile
\* over [-90, 90] degrees lies within 2 degrees of 30 degrees.
C24_PeakNearSteerAngle ==
    (Steered5G /\ Scanned) =>
        \A a \in 1..Len(ScanAngles) :
            (\A b \in 1..Len(ScanAngles) : out.val[b] <= out.val[a])
                => Abs(ScanAngles[a] - 30) <= 2

C24_Witness ==
    /\ Steered5G
    /\ Scanned
    /\ ScanAngles[121] = 30
    /\ \A b \in 1..Len(ScanAngles) : out.val[b] <= out.val[121]
    /\ out.val[121] > 15 * Milli
    /\ out.val[91] < 2 * Milli

(***************************************************************************)
(* Claims about the controller's array-level mutators (SpecMut).           *)
(***************************************************************************)
\* the step is the named mutator, addressed to the array index out'.val[1]
MutatorStep(op) == out'.op = op

AddressedValid == is_valid_array_id(arrays, out'.val[1])

\* what the boolean-returning mutators hand back: the last entry of out.val
Returned(o) == o.val[Len(o.val)]

\* C25: update_array_curvature on a valid array preserves the number of
\* elements and the frequency of every element.
C25_CurvatureKeepsFrequencies ==
    [][(MutatorStep("update_array_curvature") /\ AddressedValid) =>
          LET before == arrays[out'.val[1] + 1].elements
              after == arrays'[out'.val[1] + 1].elements
          IN /\ Len(after) = Len(before)
             /\ \A i \in 1..Len(before) :
                   after[i].frequency = before[i].frequency]_vars

BooleanMutators ==
    {"add_element_to_array", "set_array_element_count", "update_array_curvature",
     "steer_array_beam", "update_array_frequency", "update_array_phases"}

\* C29: every array-level mutator called with an invalid array id, and
\* set_array_element_count called with num_elements < 1, leaves the arrays
\* unchanged; those that return a boolean return False.
C29_InvalidCallsChangeNothing ==
    [][/\ (/\ out'.op \in BooleanMutators \cup {"remove_array"}
           /\ ~AddressedValid)
          => /\ arrays' = arrays
             /\ out'.op \in BooleanMutators => Returned(out') = <<FALSE>>
       /\ (/\ MutatorStep("set_array_element_count")
           /\ out'.val[2] < 1)
          => /\ arrays' = arrays
             /\ Returned(out') = <<FALSE>>]_vars

C29_Witness ==
    /\ out.op = "set_array_element_count"
    /\ out.val = <<0, 0, <<FALSE>>>>
    /\ Len(arrays) = 1
    /\ Len(arrays[1].elements) = MaxCtlElements
    /\ arrays[1].elements[1].phase_shift = 500

(***************************************************************************)
(* Claims about the control wiring (SpecGraphs).                           *)
(***************************************************************************)
\* C27: every key, and every spacing-unit value, that update_graphs passes to
\* update_parameters belongs to the recognized set.
C27_ForwardedKeysRecognized ==
    out.op = "update_graphs" =>
        /\ DOMAIN out.val \subseteq RecognizedKeys
        /\ out.val.spacing_unit \in RecognizedUnits

\* the invocation has rendered what the controller state left by its own
\* update gives
RendersOwn(i) ==
    /\ calls[i].pc \in {"field", "done"} => calls[i].field = FieldOf(calls[i].snap)
    /\ calls[i].pc = "done" => calls[i].profile = ProfileOf(calls[i].snap)

\* C28: an update_graphs invocation that ran with no other invocation in
\* flight renders a field map and an azimuth profile that reflect its own
\* parameters; an invocation interleaved with another one can render output
\* computed from the other's parameters.
C28_SerializedRendersOwn ==
    \A i \in Invocations : calls[i].exclusive => RendersOwn(i)

\* invocation 2 ran alone and rendered its own output; invocation 1 was
\* interleaved with an earlier run of invocation 2 under the same parameters
\* and rendered the field of those
C28_Witness ==
    /\ calls[2].pc = "done"
    /\ calls[2].exclusive
    /\ calls[2].field = FieldOf(calls[2].snap)
    /\ calls[2].profile = ProfileOf(calls[2].snap)
    /\ calls[1].pc = "done"
    /\ ~calls[1].exclusive
    /\ calls[1].params # calls[2].params
    /\ calls[1].field # FieldOf(calls[1].snap)
    /\ calls[1].field = FieldOf(calls[2].snap)
    /\ calls[1].profile = ProfileOf(calls[2].snap)
    /\ calls[1].profile # ProfileOf(calls[1].snap)

=============================================================================
